---- MODULE Spec2Model ----
(***************************************************************************)
(* Planning-poker room controller (src/src/App.tsx, PlanningRoom) and the  *)
(* hosted backend it talks to: two tables (rooms, participants), a         *)
(* realtime channel per joined controller, and the asynchronous handlers   *)
(* createRoom, joinRoom, handleVote, handleReveal, handleReset,            *)
(* handleLeave, fetchParticipants and the postgres_changes callbacks.      *)
(*                                                                         *)
(* Every await of the source is a point where other controllers, the       *)
(* backend and the realtime channel may take steps.  A backend request is  *)
(* one step (the backend executes it) followed, where the handler touches  *)
(* local state afterwards, by a second step (the response is handled).     *)
(* supabase-js resolves a request to {data, error}; it does not throw.     *)
(***************************************************************************)
EXTENDS Integers, Sequences, FiniteSets, TLC

\* ------------------------------------------------------------------ bounds
MaxRooms == 2
MaxIds == 3
MaxQueue == 3
MaxFailures == 1
MaxOps == 4
MaxEvents == 3
MaxLen == 3

\* --------------------------------------------------------------- constants
\* useState<string>("") : the empty room id
NoRoom == 0
\* useState<string | null>(null) : no participant id
NoId == 0
\* useState<number | null>(null) : no average; averages are kept in tenths
NoAverage == -1

Clients == {"c1", "c2", "c3"}
MainClients == {"c1", "c2"}
Names == {"a", "b"}
\* vote: string | null
Null == "null"
\* the labels the system specifications vote with (two of the ten buttons)
VoteLabels == {"3", "5"}
\* the ten vote buttons, with the value Number() gives each
LabelValue == [l \in {"0", "1", "2", "3", "5", "8", "13", "21", "34", "55"} |->
    CASE l = "0" -> 0 [] l = "1" -> 1 [] l = "2" -> 2 [] l = "3" -> 3
      [] l = "5" -> 5 [] l = "8" -> 8 [] l = "13" -> 13 [] l = "21" -> 21
      [] l = "34" -> 34 [] l = "55" -> 55]

NoError == "none"
ErrDuplicateName == "A participant with the same name already exists in the room"
ErrRoomNotFound == "Room not found"
ErrCreate == "Failed to create room"
ErrJoin == "Failed to join room"
ErrReveal == "Failed to reveal votes"

VARIABLES
    rooms,          \* backend table rooms: rooms[id] is the row's revealed flag
    table,          \* backend table participants: a set of rows
    nextId,         \* participant ids the backend has generated so far
    roomId, username, participants, currentVote, isRevealed, participantId,
    error, isJoining, average,      \* the useState cells of each controller
    channel,        \* realtime channel of each controller: status
    queue,          \* realtime channel of each controller: events not yet handled
    fetch,          \* fetchParticipants of each controller: the request in flight
    session,        \* createRoom / joinRoom / handleLeave in flight
    request,        \* handleVote / handleReveal / handleReset in flight
    count,          \* operations started and requests failed so far
    urlRoomId,      \* useParams(): the room id of the route of each controller
    everRevealed    \* history: the rooms whose revealed flag has been true

vars == <<rooms, table, nextId, roomId, username, participants, currentVote,
          isRevealed, participantId, error, isJoining, average, channel, queue,
          fetch, session, request, count, urlRoomId, everRevealed>>

backend == <<rooms, table, nextId>>
form == <<roomId, username>>

\* ------------------------------------------------------------------- types
\* Participant (src/src/types.ts); created_at plays no part in the handlers
Participant(id, room, name, vote) ==
    [id |-> id, room_id |-> room, name |-> name, vote |-> vote]

NoRow == Participant(NoId, NoRoom, "", Null)

\* a realtime payload: postgres_changes on rooms ("ROOM"), on participants
\* ("INSERT", "UPDATE", "DELETE"), or a presence leave ("LEAVE", key = row.id)
Event(type, row, revealed) == [type |-> type, row |-> row, revealed |-> revealed]

\* no createRoom / joinRoom / handleLeave is running; a running one holds its
\* place (pc) and the room row it read
NoSession == [op |-> "idle", pc |-> "idle", room |-> NoRoom, revealed |-> FALSE]

\* no handleVote / handleReveal / handleReset is running; a running one holds
\* what its closure captured
NoRequest == [op |-> "idle", room |-> NoRoom, vote |-> Null, ok |-> TRUE,
              avg |-> NoAverage]

NoFetch == [st |-> "idle", room |-> NoRoom, data |-> <<>>]

\* ----------------------------------------------------------------- backend
RoomExists(r) == r \in DOMAIN rooms

RowsOf(r) == {p \in table : p.room_id = r}

\* select("*").eq("room_id", r).eq("name", n)
SameNamed(r, n) == {p \in table : p.room_id = r /\ p.name = n}

\* .single(): the row when exactly one matches; otherwise data is null and the
\* error is PGRST116 (no rows, or more than one)
Single(S) ==
    IF Cardinality(S) = 1
    THEN [data |-> CHOOSE p \in S : TRUE, error |-> NoError]
    ELSE [data |-> NoRow, error |-> "PGRST116"]

RECURSIVE ById(_)
\* the rows of a select, in id order
ById(S) ==
    IF S = {} THEN <<>>
    ELSE LET p == CHOOSE x \in S : \A y \in S : x.id <= y.id
         IN  <<p>> \o ById(S \ {p})

\* a request either reaches the backend or fails (network / storage error)
Outcomes == IF count.fail < MaxFailures THEN {TRUE, FALSE} ELSE {TRUE}

\* a user operation starts with its first request
Started(ok) ==
    [count EXCEPT !.ops = @ + 1, !.fail = IF ok THEN @ ELSE @ + 1]

Failed(ok) == [count EXCEPT !.fail = IF ok THEN @ ELSE @ + 1]

\* controllers whose channel delivers the changes of room r
Listeners(r) == {d \in Clients : channel[d] = "SUBSCRIBED" /\ roomId[d] = r}

CanEmit(r, n) == \A d \in Listeners(r) : Len(queue[d]) + n <= MaxQueue

Emit(r, evs) ==
    [d \in Clients |-> IF d \in Listeners(r) THEN queue[d] \o evs ELSE queue[d]]

\* --------------------------------------------------------- vote aggregator
IsNaN(vote) == vote # Null /\ vote \notin DOMAIN LabelValue

\* Number(p.vote): Number(null) is 0
NumberOf(vote) == IF vote = Null THEN 0 ELSE LabelValue[vote]

RECURSIVE Sum(_)
Sum(s) == IF s = <<>> THEN 0 ELSE Head(s) + Sum(Tail(s))

\* Number((sum / n).toFixed(1)), in tenths: the nearest tenth, a tie going up
ToFixed1(sum, n) == (20 * sum + n) \div (2 * n)

calculateAverage(ps) ==
    LET kept == SelectSeq(ps, LAMBDA p : ~IsNaN(p.vote))
        numericVotes == [i \in DOMAIN kept |-> NumberOf(kept[i].vote)]
    IN  IF Len(numericVotes) = 0 THEN 0
        ELSE ToFixed1(Sum(numericVotes), Len(numericVotes))

\* useEffect(..., [participants, isRevealed]): runs after a render in which the
\* participants array was replaced or isRevealed changed; other is the average
\* the handler itself left
averageEffect(c, ps, replaced, revealed, other) ==
    IF revealed /\ (replaced \/ revealed # isRevealed[c])
    THEN calculateAverage(ps) ELSE other

\* ------------------------------------------------------------------- Init
Init ==
    /\ rooms = <<>>
    /\ table = {}
    /\ nextId = 0
    /\ roomId = [c \in Clients |-> NoRoom]
    /\ username = [c \in Clients |-> ""]
    /\ participants = [c \in Clients |-> <<>>]
    /\ currentVote = [c \in Clients |-> Null]
    /\ isRevealed = [c \in Clients |-> FALSE]
    /\ participantId = [c \in Clients |-> NoId]
    /\ error = [c \in Clients |-> NoError]
    /\ isJoining = [c \in Clients |-> TRUE]
    /\ average = [c \in Clients |-> NoAverage]
    /\ channel = [c \in Clients |-> "CLOSED"]
    /\ queue = [c \in Clients |-> <<>>]
    /\ fetch = [c \in Clients |-> NoFetch]
    /\ session = [c \in Clients |-> NoSession]
    /\ request = [c \in Clients |-> NoRequest]
    /\ count = [ops |-> 0, fail |-> 0]
    /\ urlRoomId = [c \in Clients |-> NoRoom]
    /\ everRevealed = {}

\* the join / create form is on screen and no earlier session is still running
CanEnter(c) == isJoining[c] /\ session[c] = NoSession /\ fetch[c] = NoFetch

\* ------------------------------------------------------------- createRoom
\* rooms.insert([{revealed: false}]).select().single()
CreateRoomInsert(c, n, ok) ==
    /\ CanEnter(c)
    /\ Len(rooms) < MaxRooms
    /\ ok \in Outcomes
    /\ username' = [username EXCEPT ![c] = n]
    /\ count' = Started(ok)
    /\ IF ok
       THEN /\ rooms' = Append(rooms, FALSE)
            /\ session' = [session EXCEPT ![c] =
                   [NoSession EXCEPT !.op = "create", !.pc = "check",
                                !.room = Len(rooms) + 1]]
            /\ error' = error
       ELSE /\ error' = [error EXCEPT ![c] = ErrCreate]
            /\ UNCHANGED <<rooms, session>>
    /\ UNCHANGED <<urlRoomId, everRevealed>>
    /\ UNCHANGED <<table, nextId, roomId, participants, currentVote, isRevealed,
                   participantId, isJoining, average, channel, queue, fetch,
                   request>>

\* the existence check: an error other than PGRST116 is thrown
CreateRoomCheck(c, ok) ==
    /\ session[c].op = "create" /\ session[c].pc = "check"
    /\ ok \in Outcomes
    /\ LET existing == Single(SameNamed(session[c].room, username[c]))
        IN  /\ count' = Failed(ok)
            /\ IF ~ok
               THEN /\ error' = [error EXCEPT ![c] = ErrCreate]
                    /\ session' = [session EXCEPT ![c] = NoSession]
               ELSE IF existing.data # NoRow
               THEN /\ error' = [error EXCEPT ![c] = ErrDuplicateName]
                    /\ session' = [session EXCEPT ![c] = NoSession]
               ELSE /\ error' = error
                    /\ session' = [session EXCEPT ![c].pc = "insert"]
    /\ UNCHANGED <<urlRoomId, everRevealed>>
    /\ UNCHANGED <<backend, form, participants, currentVote, isRevealed,
                   participantId, isJoining, average, channel, queue, fetch,
                   request>>

\* participants.insert(...), then setRoomId, setParticipantId,
\* setIsJoining(false), navigate(`/room/${room.id}`); the two effects keyed on
\* [roomId, isJoining] start the channel and the initial fetch
CreateRoomJoin(c, ok) ==
    /\ session[c].op = "create" /\ session[c].pc = "insert"
    /\ nextId < MaxIds
    /\ CanEmit(session[c].room, 1)
    /\ ok \in Outcomes
    /\ LET r == session[c].room
            row == Participant(nextId + 1, r, username[c], Null)
        IN  /\ count' = Failed(ok)
            /\ session' = [session EXCEPT ![c] = NoSession]
            /\ IF ok
               THEN /\ table' = table \cup {row}
                    /\ nextId' = nextId + 1
                    /\ queue' = Emit(r, <<Event("INSERT", row, FALSE)>>)
                    /\ roomId' = [roomId EXCEPT ![c] = r]
                    /\ participantId' = [participantId EXCEPT ![c] = row.id]
                    /\ isJoining' = [isJoining EXCEPT ![c] = FALSE]
                    /\ channel' = [channel EXCEPT ![c] = "SUBSCRIBING"]
                    /\ fetch' = [fetch EXCEPT ![c] =
                           [st |-> "sent", room |-> r, data |-> <<>>]]
                    /\ urlRoomId' = [urlRoomId EXCEPT ![c] = r]
                    /\ error' = error
               ELSE /\ error' = [error EXCEPT ![c] = ErrCreate]
                    /\ UNCHANGED <<table, nextId, queue, roomId, participantId,
                                   isJoining, channel, fetch, urlRoomId>>
    /\ UNCHANGED everRevealed
    /\ UNCHANGED <<rooms, username, participants, currentVote, isRevealed,
                   average, request>>

\* --------------------------------------------------------------- joinRoom
\* joinRoom without its "if (roomError)" return: the join goes on to the name
\* check whether or not the room row came back
JoinRoomSelectUnchecked(c, n, r, ok) ==
    /\ CanEnter(c)
    /\ ok \in Outcomes
    /\ username' = [username EXCEPT ![c] = n]
    /\ roomId' = [roomId EXCEPT ![c] = r]
    /\ count' = Started(ok)
    /\ session' = [session EXCEPT ![c] =
           [NoSession EXCEPT !.op = "join", !.pc = "check", !.room = r,
                        !.revealed = IF RoomExists(r) THEN rooms[r] ELSE FALSE]]
    /\ error' = error
    /\ UNCHANGED <<urlRoomId, everRevealed>>
    /\ UNCHANGED <<backend, participants, currentVote, isRevealed,
                   participantId, isJoining, average, channel, queue, fetch,
                   request>>

\* rooms.select("*").eq("id", roomId).single(): any error is "Room not found"
JoinRoomSelect(c, n, r, ok) ==
    /\ CanEnter(c)
    /\ ok \in Outcomes
    /\ username' = [username EXCEPT ![c] = n]
    /\ roomId' = [roomId EXCEPT ![c] = r]
    /\ count' = Started(ok)
    /\ IF ok /\ RoomExists(r)
       THEN /\ session' = [session EXCEPT ![c] =
                   [NoSession EXCEPT !.op = "join", !.pc = "check", !.room = r,
                                !.revealed = rooms[r]]]
            /\ error' = error
       ELSE /\ error' = [error EXCEPT ![c] = ErrRoomNotFound]
            /\ session' = session
    /\ UNCHANGED <<urlRoomId, everRevealed>>
    /\ UNCHANGED <<backend, participants, currentVote, isRevealed,
                   participantId, isJoining, average, channel, queue, fetch,
                   request>>

\* the existence check: only data is read, the error is dropped
JoinRoomCheck(c, ok) ==
    /\ session[c].op = "join" /\ session[c].pc = "check"
    /\ ok \in Outcomes
    /\ LET existing == IF ok THEN Single(SameNamed(session[c].room, username[c]))
                        ELSE [data |-> NoRow, error |-> "fetch"]
        IN  /\ count' = Failed(ok)
            /\ IF existing.data # NoRow
               THEN /\ error' = [error EXCEPT ![c] = ErrDuplicateName]
                    /\ session' = [session EXCEPT ![c] = NoSession]
               ELSE /\ error' = error
                    /\ session' = [session EXCEPT ![c].pc = "insert"]
    /\ UNCHANGED <<urlRoomId, everRevealed>>
    /\ UNCHANGED <<backend, form, participants, currentVote, isRevealed,
                   participantId, isJoining, average, channel, queue, fetch,
                   request>>

\* participants.insert(...), then setParticipantId, setIsRevealed(room.revealed),
\* setIsJoining(false), setError(null)
JoinRoomJoin(c, ok) ==
    /\ session[c].op = "join" /\ session[c].pc = "insert"
    /\ nextId < MaxIds
    /\ CanEmit(session[c].room, 1)
    /\ ok \in Outcomes
    /\ LET r == session[c].room
            row == Participant(nextId + 1, r, username[c], Null)
        IN  /\ count' = Failed(ok)
            /\ session' = [session EXCEPT ![c] = NoSession]
            /\ IF ok
               THEN /\ table' = table \cup {row}
                    /\ nextId' = nextId + 1
                    /\ queue' = Emit(r, <<Event("INSERT", row, FALSE)>>)
                    /\ participantId' = [participantId EXCEPT ![c] = row.id]
                    /\ isRevealed' = [isRevealed EXCEPT ![c] = session[c].revealed]
                    /\ average' = [average EXCEPT ![c] =
                           averageEffect(c, participants[c], FALSE,
                                         session[c].revealed, @)]
                    /\ isJoining' = [isJoining EXCEPT ![c] = FALSE]
                    /\ channel' = [channel EXCEPT ![c] = "SUBSCRIBING"]
                    /\ fetch' = [fetch EXCEPT ![c] =
                           [st |-> "sent", room |-> r, data |-> <<>>]]
                    /\ error' = [error EXCEPT ![c] = NoError]
               ELSE /\ error' = [error EXCEPT ![c] = ErrJoin]
                    /\ UNCHANGED <<table, nextId, queue, participantId,
                                   isRevealed, average, isJoining, channel, fetch>>
    /\ UNCHANGED <<urlRoomId, everRevealed>>
    /\ UNCHANGED <<rooms, form, participants, currentVote, request>>

\* ----------------------------------------------------- realtime channel
\* channel.subscribe(...) reaches SUBSCRIBED; from then on the changes of the
\* room are delivered, and channel.track(...) registers the presence
Subscribed(c) ==
    /\ channel[c] = "SUBSCRIBING"
    /\ channel' = [channel EXCEPT ![c] = "SUBSCRIBED"]
    /\ UNCHANGED <<urlRoomId, everRevealed>>
    /\ UNCHANGED <<backend, form, participants, currentVote, isRevealed,
                   participantId, error, isJoining, average, queue, fetch,
                   session, request, count>>

\* the participants callback with an INSERT case that appends without looking
\* for the id
onParticipantChangeNoDedup(prev, ev) ==
    CASE ev.type = "INSERT" -> Append(prev, ev.row)
      [] ev.type = "DELETE" -> SelectSeq(prev, LAMBDA p : p.id # ev.row.id)
      [] ev.type = "UPDATE" ->
            [i \in DOMAIN prev |-> IF prev[i].id = ev.row.id THEN ev.row ELSE prev[i]]
      [] ev.type = "LEAVE" -> SelectSeq(prev, LAMBDA p : p.id # ev.row.id)
      [] OTHER -> prev

\* the participants postgres_changes callback and the presence leave callback,
\* as functions of the previous array
onParticipantChange(prev, ev) ==
    CASE ev.type = "INSERT" ->
            IF \E i \in DOMAIN prev : prev[i].id = ev.row.id THEN prev
            ELSE Append(prev, ev.row)
      [] ev.type = "DELETE" -> SelectSeq(prev, LAMBDA p : p.id # ev.row.id)
      [] ev.type = "UPDATE" ->
            [i \in DOMAIN prev |-> IF prev[i].id = ev.row.id THEN ev.row ELSE prev[i]]
      [] ev.type = "LEAVE" -> SelectSeq(prev, LAMBDA p : p.id # ev.row.id)
      [] OTHER -> prev

\* whether the callback hands React a new array (INSERT returns prev when the
\* id is already there)
replacesArray(prev, ev) ==
    CASE ev.type = "INSERT" -> ~(\E i \in DOMAIN prev : prev[i].id = ev.row.id)
      [] ev.type = "ROOM" -> FALSE
      [] OTHER -> TRUE

\* the rooms postgres_changes callback: adopt revealed
onRoomChange(prev, ev) == IF ev.type = "ROOM" THEN ev.revealed ELSE prev

\* the two callbacks without the test of payload.new.id against participantId
clearsVoteAnyId(me, ev) ==
    \/ ev.type = "ROOM" /\ ~ev.revealed
    \/ ev.type = "UPDATE" /\ ev.row.vote = Null

\* setCurrentVote(null) of the two callbacks
clearsVote(me, ev) ==
    \/ ev.type = "ROOM" /\ ~ev.revealed
    \/ ev.type = "UPDATE" /\ ev.row.id = me /\ ev.row.vote = Null

\* one delivered event is handled
Deliver(c) ==
    /\ channel[c] = "SUBSCRIBED"
    /\ queue[c] # <<>>
    /\ LET ev == Head(queue[c])
           ps == onParticipantChange(participants[c], ev)
           rev == onRoomChange(isRevealed[c], ev)
       IN  /\ queue' = [queue EXCEPT ![c] = Tail(@)]
           /\ participants' = [participants EXCEPT ![c] = ps]
           /\ isRevealed' = [isRevealed EXCEPT ![c] = rev]
           /\ currentVote' = [currentVote EXCEPT ![c] =
                  IF clearsVote(participantId[c], ev) THEN Null ELSE @]
           /\ average' = [average EXCEPT ![c] =
                  averageEffect(c, ps, replacesArray(participants[c], ev), rev, @)]
    /\ UNCHANGED <<urlRoomId, everRevealed>>
    /\ UNCHANGED <<backend, form, participantId, error, isJoining, channel,
                   fetch, session, request, count>>

\* ------------------------------------------------------ fetchParticipants
\* participants.select("*").eq("room_id", roomId): the backend answers
FetchSelect(c, ok) ==
    /\ fetch[c].st = "sent"
    /\ ok \in Outcomes
    /\ count' = Failed(ok)
    /\ fetch' = [fetch EXCEPT ![c] =
           IF ok THEN [st |-> "loaded", room |-> fetch[c].room,
                       data |-> ById(RowsOf(fetch[c].room))]
           ELSE NoFetch]
    /\ UNCHANGED <<urlRoomId, everRevealed>>
    /\ UNCHANGED <<backend, form, participants, currentVote, isRevealed,
                   participantId, error, isJoining, average, channel, queue,
                   session, request>>

\* setParticipants(data)
FetchApply(c) ==
    /\ fetch[c].st = "loaded"
    /\ fetch' = [fetch EXCEPT ![c] = NoFetch]
    /\ participants' = [participants EXCEPT ![c] = fetch[c].data]
    /\ average' = [average EXCEPT ![c] =
           averageEffect(c, fetch[c].data, TRUE, isRevealed[c], @)]
    /\ UNCHANGED <<urlRoomId, everRevealed>>
    /\ UNCHANGED <<backend, form, currentVote, isRevealed, participantId, error,
                   isJoining, channel, queue, session, request, count>>

\* ------------------------------------------------------------- handleVote
\* the room view is on screen
InRoom(c) == ~isJoining[c]

\* participants.update({vote: value}).eq("id", participantId): the error of
\* the result is not read
VoteUpdate(c, v, ok) ==
    /\ InRoom(c) /\ request[c] = NoRequest
    /\ CanEmit(roomId[c], 1)
    /\ ok \in Outcomes
    /\ LET old == {p \in table : p.id = participantId[c]}
            new == {[p EXCEPT !.vote = v] : p \in old}
        IN  /\ count' = Started(ok)
            /\ request' = [request EXCEPT ![c] =
                   [NoRequest EXCEPT !.op = "vote", !.vote = v]]
            /\ IF ok
               THEN /\ table' = (table \ old) \cup new
                    /\ queue' = Emit(roomId[c],
                           [i \in 1..Cardinality(new) |->
                               Event("UPDATE", ById(new)[i], FALSE)])
               ELSE UNCHANGED <<table, queue>>
    /\ UNCHANGED <<urlRoomId, everRevealed>>
    /\ UNCHANGED <<rooms, nextId, form, participants, currentVote, isRevealed,
                   participantId, error, isJoining, average, channel, fetch,
                   session>>

\* setCurrentVote(value)
VoteDone(c) ==
    /\ request[c].op = "vote"
    /\ request' = [request EXCEPT ![c] = NoRequest]
    /\ currentVote' = [currentVote EXCEPT ![c] = request[c].vote]
    /\ UNCHANGED <<urlRoomId, everRevealed>>
    /\ UNCHANGED <<backend, form, participants, isRevealed, participantId, error,
                   isJoining, average, channel, queue, fetch, session, count>>

\* ----------------------------------------------------------- handleReveal
\* the Reveal button: shown when !isRevealed, enabled when every entry of the
\* local array has a vote
RevealEnabled(c) ==
    /\ ~isRevealed[c]
    /\ \A i \in DOMAIN participants[c] : participants[c][i].vote # Null

\* rooms.update({revealed: true}).eq("id", roomId); participants is the array
\* of the render the click happened in
RevealUpdate(c, ok) ==
    /\ InRoom(c) /\ request[c] = NoRequest
    /\ RevealEnabled(c)
    /\ CanEmit(roomId[c], 1)
    /\ ok \in Outcomes
    /\ count' = Started(ok)
    /\ request' = [request EXCEPT ![c] =
           [NoRequest EXCEPT !.op = "reveal", !.ok = ok,
                        !.avg = calculateAverage(participants[c])]]
    /\ IF ok /\ RoomExists(roomId[c])
       THEN /\ rooms' = [rooms EXCEPT ![roomId[c]] = TRUE]
            /\ everRevealed' = everRevealed \cup {roomId[c]}
            /\ queue' = Emit(roomId[c], <<Event("ROOM", NoRow, TRUE)>>)
       ELSE UNCHANGED <<rooms, everRevealed, queue>>
    /\ UNCHANGED urlRoomId
    /\ UNCHANGED <<table, nextId, form, participants, currentVote, isRevealed,
                   participantId, error, isJoining, average, channel, fetch,
                   session>>

\* if (error) throw error; setIsRevealed(true); setAverage(calculateAverage(participants))
RevealDone(c) ==
    /\ request[c].op = "reveal"
    /\ request' = [request EXCEPT ![c] = NoRequest]
    /\ IF request[c].ok
       THEN /\ isRevealed' = [isRevealed EXCEPT ![c] = TRUE]
            /\ average' = [average EXCEPT ![c] =
                   averageEffect(c, participants[c], FALSE, TRUE, request[c].avg)]
            /\ error' = error
       ELSE /\ error' = [error EXCEPT ![c] = ErrReveal]
            /\ UNCHANGED <<isRevealed, average>>
    /\ UNCHANGED <<urlRoomId, everRevealed>>
    /\ UNCHANGED <<backend, form, participants, currentVote, participantId,
                   isJoining, channel, queue, fetch, session, count>>

\* ------------------------------------------------------------ handleReset
\* rooms.update({revealed: false}).eq("id", roomId): the result is not read
ResetRoom(c, ok) ==
    /\ InRoom(c) /\ request[c] = NoRequest
    /\ CanEmit(roomId[c], 1)
    /\ ok \in Outcomes
    /\ count' = Started(ok)
    /\ request' = [request EXCEPT ![c] =
           [NoRequest EXCEPT !.op = "reset", !.room = roomId[c]]]
    /\ IF ok /\ RoomExists(roomId[c])
       THEN /\ rooms' = [rooms EXCEPT ![roomId[c]] = FALSE]
            /\ queue' = Emit(roomId[c], <<Event("ROOM", NoRow, FALSE)>>)
       ELSE UNCHANGED <<rooms, queue>>
    /\ UNCHANGED <<urlRoomId, everRevealed>>
    /\ UNCHANGED <<table, nextId, form, participants, currentVote, isRevealed,
                   participantId, error, isJoining, average, channel, fetch,
                   session>>

\* participants.update({vote: null}).eq("room_id", roomId) (the result is not
\* read), then setIsRevealed(false), setCurrentVote(null), setAverage(null)
ResetVotes(c, ok) ==
    /\ request[c].op = "reset"
    /\ CanEmit(request[c].room, Cardinality(RowsOf(request[c].room)))
    /\ ok \in Outcomes
    /\ LET r == request[c].room
            new == {[p EXCEPT !.vote = Null] : p \in RowsOf(r)}
        IN  /\ count' = Failed(ok)
            /\ IF ok
               THEN /\ table' = (table \ RowsOf(r)) \cup new
                    /\ queue' = Emit(r, [i \in 1..Cardinality(new) |->
                                            Event("UPDATE", ById(new)[i], FALSE)])
               ELSE UNCHANGED <<table, queue>>
    /\ request' = [request EXCEPT ![c] = NoRequest]
    /\ isRevealed' = [isRevealed EXCEPT ![c] = FALSE]
    /\ currentVote' = [currentVote EXCEPT ![c] = Null]
    /\ average' = [average EXCEPT ![c] = NoAverage]
    /\ UNCHANGED <<urlRoomId, everRevealed>>
    /\ UNCHANGED <<rooms, nextId, form, participants, participantId, error,
                   isJoining, channel, fetch, session>>

\* ------------------------------------------------------------ handleLeave
\* participants.delete().eq("id", participantId): the result is not read
LeaveDelete(c, ok) ==
    /\ InRoom(c) /\ session[c] = NoSession
    /\ CanEmit(roomId[c], 1)
    /\ ok \in Outcomes
    /\ LET old == {p \in table : p.id = participantId[c]}
        IN  /\ count' = Started(ok)
            /\ session' = [session EXCEPT ![c] =
                   [NoSession EXCEPT !.op = "leave", !.pc = "untrack"]]
            /\ IF ok /\ old # {}
               THEN /\ table' = table \ old
                    /\ queue' = Emit(roomId[c],
                           <<Event("DELETE",
                                   Participant(participantId[c], NoRoom, "", Null),
                                   FALSE)>>)
               ELSE UNCHANGED <<table, queue>>
    /\ UNCHANGED <<urlRoomId, everRevealed>>
    /\ UNCHANGED <<rooms, nextId, form, participants, currentVote, isRevealed,
                   participantId, error, isJoining, average, channel, fetch,
                   request>>

\* channel.untrack(), channel.unsubscribe(), then setIsJoining(true),
\* setParticipantId(null), setCurrentVote(null), setRoomId(""); the other
\* controllers of the room get the presence leave of key participantId. With
\* isJoining true again the URL effect runs and, on a /room/:roomId route,
\* puts the room id of the route back into roomId
LeaveFinish(c) ==
    /\ session[c].op = "leave"
    /\ LET others == Listeners(roomId[c]) \ {c}
           tracked == channel[c] = "SUBSCRIBED"
       IN  /\ tracked => \A d \in others : Len(queue[d]) < MaxQueue
           /\ queue' = [d \in Clients |->
                  IF d = c THEN <<>>
                  ELSE IF tracked /\ d \in others
                  THEN Append(queue[d],
                              Event("LEAVE",
                                    Participant(participantId[c], NoRoom, "", Null),
                                    FALSE))
                  ELSE queue[d]]
    /\ channel' = [channel EXCEPT ![c] = "CLOSED"]
    /\ session' = [session EXCEPT ![c] = NoSession]
    /\ isJoining' = [isJoining EXCEPT ![c] = TRUE]
    /\ participantId' = [participantId EXCEPT ![c] = NoId]
    /\ currentVote' = [currentVote EXCEPT ![c] = Null]
    /\ roomId' = [roomId EXCEPT ![c] = urlRoomId[c]]
    /\ UNCHANGED <<urlRoomId, everRevealed>>
    /\ UNCHANGED <<backend, username, participants, isRevealed, error, average,
                   fetch, request, count>>

\* ----------------------------------------------------------- specifications
\* user operations are started while the budget lasts
Budget == count.ops < MaxOps

\* three controllers creating and joining rooms, under every name
NextJoin ==
    \E c \in Clients, n \in Names :
        \/ Budget /\ CreateRoomInsert(c, n, TRUE)
        \/ CreateRoomCheck(c, TRUE)
        \/ CreateRoomJoin(c, TRUE)
        \/ Budget /\ \E r \in 1..MaxRooms : JoinRoomSelect(c, n, r, TRUE)
        \/ JoinRoomCheck(c, TRUE)
        \/ JoinRoomJoin(c, TRUE)

SpecJoin == Init /\ [][NextJoin]_vars

\* the name each user of the room specification types
OwnName == [c \in Clients |-> IF c = "c1" THEN "a" ELSE "b"]

\* two controllers, every operation, every request answered
Next ==
    \E c \in MainClients :
        \/ Budget /\ CreateRoomInsert(c, OwnName[c], TRUE)
        \/ CreateRoomCheck(c, TRUE)
        \/ CreateRoomJoin(c, TRUE)
        \/ Budget /\ \E r \in DOMAIN rooms : JoinRoomSelect(c, OwnName[c], r, TRUE)
        \/ JoinRoomCheck(c, TRUE)
        \/ JoinRoomJoin(c, TRUE)
        \/ Subscribed(c)
        \/ Deliver(c)
        \/ FetchSelect(c, TRUE)
        \/ FetchApply(c)
        \/ Budget /\ \E v \in VoteLabels : VoteUpdate(c, v, TRUE)
        \/ VoteDone(c)
        \/ Budget /\ RevealUpdate(c, TRUE)
        \/ RevealDone(c)
        \/ Budget /\ ResetRoom(c, TRUE)
        \/ ResetVotes(c, TRUE)
        \/ Budget /\ LeaveDelete(c, TRUE)
        \/ LeaveFinish(c)

Spec == Init /\ [][Next]_vars

\* nothing in flight: every event handled, every request answered, every
\* fetch applied, every channel subscribed or closed
Quiescent ==
    \A c \in Clients :
        /\ queue[c] = <<>>
        /\ session[c] = NoSession
        /\ request[c] = NoRequest
        /\ fetch[c] = NoFetch
        /\ channel[c] # "SUBSCRIBING"

\* the label each user of an estimation round clicks
RoundVote == [c \in Clients |-> IF c = "c1" THEN "3" ELSE "5"]

\* the participant row of the controller has a vote
Voted(c) == \E p \in table : p.id = participantId[c] /\ p.vote # Null

\* one estimation round: c1 creates the room, c2 joins it, both vote once,
\* one of them reveals, and one who sees the votes resets while both channels
\* are subscribed; count.ops is the number of the user operations started so
\* far, and what the operations leave in flight interleaves freely
NextRound ==
    \E c \in MainClients :
        \/ count.ops = 0 /\ c = "c1" /\ CreateRoomInsert(c, OwnName[c], TRUE)
        \/ CreateRoomCheck(c, TRUE)
        \/ CreateRoomJoin(c, TRUE)
        \/ /\ count.ops = 1 /\ c = "c2" /\ InRoom("c1")
           /\ JoinRoomSelect(c, OwnName[c], roomId["c1"], TRUE)
        \/ JoinRoomCheck(c, TRUE)
        \/ JoinRoomJoin(c, TRUE)
        \/ Subscribed(c)
        \/ Deliver(c)
        \/ FetchSelect(c, TRUE)
        \/ FetchApply(c)
        \/ /\ count.ops \in {2, 3} /\ InRoom("c1") /\ InRoom("c2") /\ ~Voted(c)
           /\ VoteUpdate(c, RoundVote[c], TRUE)
        \/ VoteDone(c)
        \/ count.ops = 4 /\ RevealUpdate(c, TRUE)
        \/ RevealDone(c)
        \/ /\ count.ops = 5 /\ isRevealed[c]
           /\ \A d \in MainClients : channel[d] = "SUBSCRIBED"
           /\ ResetRoom(c, TRUE)
        \/ ResetVotes(c, TRUE)

SpecRound == Init /\ [][NextRound]_vars

\* c1 creates the room, c2 joins it, and one of them leaves while the channel
\* of the other is subscribed
NextLeave ==
    \E c \in MainClients :
        \/ count.ops = 0 /\ c = "c1" /\ CreateRoomInsert(c, OwnName[c], TRUE)
        \/ CreateRoomCheck(c, TRUE)
        \/ CreateRoomJoin(c, TRUE)
        \/ /\ count.ops = 1 /\ c = "c2" /\ InRoom("c1")
           /\ JoinRoomSelect(c, OwnName[c], roomId["c1"], TRUE)
        \/ JoinRoomCheck(c, TRUE)
        \/ JoinRoomJoin(c, TRUE)
        \/ Subscribed(c)
        \/ Deliver(c)
        \/ FetchSelect(c, TRUE)
        \/ FetchApply(c)
        \/ /\ count.ops = 2
           /\ \A d \in MainClients \ {c} : InRoom(d) /\ channel[d] = "SUBSCRIBED"
           /\ LeaveDelete(c, TRUE)
        \/ LeaveFinish(c)

SpecLeave == Init /\ [][NextLeave]_vars

\* c1 creates the room, c2 joins it, then they vote, reveal, reset and leave
\* in any order; any one request of the run may be answered with an error
NextFail ==
    \E c \in MainClients, ok \in BOOLEAN :
        \/ count.ops = 0 /\ c = "c1" /\ CreateRoomInsert(c, OwnName[c], ok)
        \/ CreateRoomCheck(c, ok)
        \/ CreateRoomJoin(c, ok)
        \/ /\ count.ops = 1 /\ c = "c2" /\ InRoom("c1")
           /\ JoinRoomSelect(c, OwnName[c], roomId["c1"], ok)
        \/ JoinRoomCheck(c, ok)
        \/ JoinRoomJoin(c, ok)
        \/ Subscribed(c)
        \/ Deliver(c)
        \/ FetchSelect(c, ok)
        \/ FetchApply(c)
        \/ count.ops >= 1 /\ Budget /\ VoteUpdate(c, RoundVote[c], ok)
        \/ VoteDone(c)
        \/ count.ops >= 1 /\ Budget /\ RevealUpdate(c, ok)
        \/ RevealDone(c)
        \/ count.ops >= 1 /\ Budget /\ ResetRoom(c, ok)
        \/ ResetVotes(c, ok)
        \/ count.ops >= 1 /\ Budget /\ LeaveDelete(c, ok)
        \/ LeaveFinish(c)

SpecFail == Init /\ [][NextFail]_vars

\* the same two controllers when only the writes of handleVote, handleReveal,
\* handleReset and handleLeave can be answered with an error: createRoom,
\* joinRoom and the fetch always succeed
NextWrite ==
    \E c \in MainClients, ok \in BOOLEAN :
        \/ count.ops = 0 /\ c = "c1" /\ CreateRoomInsert(c, OwnName[c], TRUE)
        \/ CreateRoomCheck(c, TRUE)
        \/ CreateRoomJoin(c, TRUE)
        \/ /\ count.ops = 1 /\ c = "c2" /\ InRoom("c1")
           /\ JoinRoomSelect(c, OwnName[c], roomId["c1"], TRUE)
        \/ JoinRoomCheck(c, TRUE)
        \/ JoinRoomJoin(c, TRUE)
        \/ Subscribed(c)
        \/ Deliver(c)
        \/ FetchSelect(c, TRUE)
        \/ FetchApply(c)
        \/ count.ops >= 1 /\ Budget /\ VoteUpdate(c, RoundVote[c], ok)
        \/ VoteDone(c)
        \/ count.ops >= 1 /\ Budget /\ RevealUpdate(c, ok)
        \/ RevealDone(c)
        \/ count.ops >= 1 /\ Budget /\ ResetRoom(c, ok)
        \/ ResetVotes(c, ok)
        \/ count.ops >= 1 /\ Budget /\ LeaveDelete(c, ok)
        \/ LeaveFinish(c)

SpecWrite == Init /\ [][NextWrite]_vars

\* the vote aggregator alone: a revealed controller whose fetch has loaded any
\* array of at most MaxLen rows, with numeric, non-numeric and absent votes
AverageVotes == {Null, "x", "3", "5", "8"}

AverageInputs ==
    UNION {{[i \in 1..n |-> Participant(i, 1, "a", f[i])] : f \in [1..n -> AverageVotes]}
           : n \in 0..MaxLen}

InitAverage ==
    /\ rooms = <<TRUE>>
    /\ urlRoomId = [c \in Clients |-> NoRoom]
    /\ everRevealed = {1}
    /\ \E data \in AverageInputs :
        /\ table = {data[i] : i \in DOMAIN data}
        /\ fetch = [c \in Clients |->
               IF c = "c1" THEN [st |-> "loaded", room |-> 1, data |-> data]
               ELSE NoFetch]
    /\ nextId = MaxLen
    /\ roomId = [c \in Clients |-> IF c = "c1" THEN 1 ELSE NoRoom]
    /\ username = [c \in Clients |-> IF c = "c1" THEN "a" ELSE ""]
    /\ participants = [c \in Clients |-> <<>>]
    /\ currentVote = [c \in Clients |-> Null]
    /\ isRevealed = [c \in Clients |-> c = "c1"]
    /\ participantId = [c \in Clients |-> IF c = "c1" THEN 1 ELSE NoId]
    /\ error = [c \in Clients |-> NoError]
    /\ isJoining = [c \in Clients |-> c # "c1"]
    /\ average = [c \in Clients |-> NoAverage]
    /\ channel = [c \in Clients |-> IF c = "c1" THEN "SUBSCRIBED" ELSE "CLOSED"]
    /\ queue = [c \in Clients |-> <<>>]
    /\ session = [c \in Clients |-> NoSession]
    /\ request = [c \in Clients |-> NoRequest]
    /\ count = [ops |-> 0, fail |-> 0]

NextAverage == FetchApply("c1")

SpecAverage == InitAverage /\ [][NextAverage]_vars

\* the reconciliation callback alone: two controllers of room 1 with empty
\* arrays are handed the same participant events in two arrival orders that
\* agree, for every id, on the last event of that id
ReconcileEvents ==
    {Event("INSERT", Participant(i, 1, "a", Null), FALSE) : i \in 1..2}
    \cup {Event("UPDATE", Participant(i, 1, "a", v), FALSE) : i \in 1..2, v \in {Null, "3"}}
    \cup {Event("DELETE", Participant(i, NoRoom, "", Null), FALSE) : i \in 1..2}

\* the last event of id i in s, as a set (empty when s has none)
LastApplied(s, i) ==
    LET at == {k \in DOMAIN s : s[k].row.id = i}
    IN  {s[k] : k \in {j \in at : \A m \in at : m <= j}}

InitReconcile ==
    /\ rooms = <<FALSE>>
    /\ urlRoomId = [c \in Clients |-> NoRoom]
    /\ everRevealed = {}
    /\ table = {}
    /\ nextId = 2
    /\ \E n \in 0..MaxEvents :
        \E s \in [1..n -> ReconcileEvents], pi \in Permutations(1..n) :
            LET t == [k \in 1..n |-> s[pi[k]]]
            IN  /\ \A i \in 1..2 : LastApplied(s, i) = LastApplied(t, i)
                /\ queue = [c \in Clients |->
                       IF c = "c1" THEN s ELSE IF c = "c2" THEN t ELSE <<>>]
    /\ fetch = [c \in Clients |-> NoFetch]
    /\ roomId = [c \in Clients |-> IF c \in MainClients THEN 1 ELSE NoRoom]
    /\ username = [c \in Clients |-> IF c \in MainClients THEN OwnName[c] ELSE ""]
    /\ participants = [c \in Clients |-> <<>>]
    /\ currentVote = [c \in Clients |-> Null]
    /\ isRevealed = [c \in Clients |-> FALSE]
    /\ participantId = [c \in Clients |->
           IF c = "c1" THEN 1 ELSE IF c = "c2" THEN 2 ELSE NoId]
    /\ error = [c \in Clients |-> NoError]
    /\ isJoining = [c \in Clients |-> c \notin MainClients]
    /\ average = [c \in Clients |-> NoAverage]
    /\ channel = [c \in Clients |->
           IF c \in MainClients THEN "SUBSCRIBED" ELSE "CLOSED"]
    /\ session = [c \in Clients |-> NoSession]
    /\ request = [c \in Clients |-> NoRequest]
    /\ count = [ops |-> 0, fail |-> 0]

NextReconcile == \E c \in MainClients : Deliver(c)

SpecReconcile == InitReconcile /\ [][NextReconcile]_vars

\* controller c1 alone in room 1, as participant 1, with its channel
\* subscribed: local array ps, revealed flag rev, local vote v, events q not
\* yet handled, fetch f
Alone(ps, rev, v, q, f) ==
    /\ rooms = <<rev>>
    /\ urlRoomId = [c \in Clients |-> NoRoom]
    /\ everRevealed = IF rev THEN {1} ELSE {}
    /\ table = {}
    /\ nextId = 2
    /\ roomId = [c \in Clients |-> IF c = "c1" THEN 1 ELSE NoRoom]
    /\ username = [c \in Clients |-> IF c = "c1" THEN "a" ELSE ""]
    /\ participants = [c \in Clients |-> IF c = "c1" THEN ps ELSE <<>>]
    /\ currentVote = [c \in Clients |-> IF c = "c1" THEN v ELSE Null]
    /\ isRevealed = [c \in Clients |-> c = "c1" /\ rev]
    /\ participantId = [c \in Clients |-> IF c = "c1" THEN 1 ELSE NoId]
    /\ error = [c \in Clients |-> NoError]
    /\ isJoining = [c \in Clients |-> c # "c1"]
    /\ average = [c \in Clients |->
           IF c = "c1" /\ rev THEN calculateAverage(ps) ELSE NoAverage]
    /\ channel = [c \in Clients |-> IF c = "c1" THEN "SUBSCRIBED" ELSE "CLOSED"]
    /\ queue = [c \in Clients |-> IF c = "c1" THEN q ELSE <<>>]
    /\ fetch = [c \in Clients |-> IF c = "c1" THEN f ELSE NoFetch]
    /\ session = [c \in Clients |-> NoSession]
    /\ request = [c \in Clients |-> NoRequest]
    /\ count = [ops |-> 0, fail |-> 0]

\* the results a select of the rows of room 1 can have: any of the rows 1 and
\* 2, each with or without a vote, in id order
Snapshots ==
    {ById(S) : S \in {T \in SUBSET {Participant(i, 1, "a", v) :
                                       i \in 1..2, v \in {Null, "3"}} :
                          \A p, q \in T : p.id = q.id => p = q}}

\* the initial fetch racing with the channel: a freshly joined controller
\* whose fetch has loaded any snapshot and whose channel holds any sequence of
\* at most MaxEvents participant events, repeated ones included
InitRoster ==
    \E data \in Snapshots, n \in 0..MaxEvents :
        \E q \in [1..n -> ReconcileEvents] :
            Alone(<<>>, FALSE, Null, q, [st |-> "loaded", room |-> 1, data |-> data])

NextRoster == Deliver("c1") \/ FetchApply("c1")

SpecRoster == InitRoster /\ [][NextRoster]_vars

\* one callback invocation at a time: a subscribed controller in any local
\* state (an array of at most two rows, either revealed flag, a vote or none)
\* is handed one payload twice in a row
RoomEvents == {Event("ROOM", NoRow, b) : b \in BOOLEAN}

LeaveEvents == {Event("LEAVE", Participant(i, NoRoom, "", Null), FALSE) : i \in 1..2}

Arrays ==
    {ps \in UNION {[1..n -> {Participant(i, 1, "a", v) : i \in 1..2, v \in {Null, "3"}}] :
                      n \in 0..2} :
        \A i, j \in DOMAIN ps : ps[i].id = ps[j].id => i = j}

InitHandler ==
    \E ps \in Arrays, rev \in BOOLEAN, v \in {Null, "3"},
       e \in ReconcileEvents \cup RoomEvents \cup LeaveEvents :
        Alone(ps, rev, v, <<e, e>>, NoFetch)

NextHandler == Deliver("c1")

SpecHandler == InitHandler /\ [][NextHandler]_vars

\* ------------------------------------------------------------------ claims
\* C1: a createRoom or joinRoom whose existence check runs while at least one
\* participant of that name is in the target room (however many there are)
\* fails with the duplicate-name error, inserts no row and leaves the
\* controller not joined
C1_DuplicateNameRejected ==
    [][\A c \in Clients :
          (/\ session[c].pc = "check"
           /\ session'[c] # session[c]
           /\ SameNamed(session[c].room, username[c]) # {})
          => (/\ error'[c] = ErrDuplicateName
              /\ session'[c] = NoSession
              /\ table' = table
              /\ isJoining'[c]
              /\ participantId'[c] = NoId)]_vars

\* C2: no two participant rows of one room carry the same display name
C2_UniqueNames ==
    \A p, q \in table : (p.room_id = q.room_id /\ p.name = q.name) => p.id = q.id

\* the array as the collection keyed by id that the spec speaks of
Roster(c) == {participants[c][i] : i \in DOMAIN participants[c]}

\* C3: applied to an empty roster, two arrival orders of the same participant
\* events that agree on each id's last-applied row end in the same roster
C3_OrderIndependent ==
    (queue["c1"] = <<>> /\ queue["c2"] = <<>>) => Roster("c1") = Roster("c2")

\* the mean the spec describes: of the votes that are numeric labels only, 0
\* when there is none, to one decimal place (in tenths)
MeanOfNumericVotes(ps) ==
    LET numeric == SelectSeq(ps, LAMBDA p : p.vote \in DOMAIN LabelValue)
        values == [i \in DOMAIN numeric |-> LabelValue[numeric[i].vote]]
    IN  IF numeric = <<>> THEN 0 ELSE ToFixed1(Sum(values), Len(values))

\* C4: the average the controller computes from an array is 0 when no vote is
\* numeric and otherwise the mean of the numeric votes to one decimal place;
\* absent (null) and non-numeric votes count neither in the sum nor in the
\* number of votes
C4_AverageOfNumericVotes ==
    (fetch["c1"] = NoFetch /\ isRevealed["c1"]) =>
        average["c1"] = MeanOfNumericVotes(participants["c1"])

\* C5: once c1 has created, c2 has joined, the votes "3" and "5" are cast and
\* one of them has revealed, and nothing is in flight any more, both
\* controllers show revealed and the average 4.0
C5_BothSeeRevealAndAverage ==
    (count.ops = 5 /\ Quiescent) =>
        \A c \in MainClients : isRevealed[c] /\ average[c] = 40

\* C6: once a Reset after the reveal has completed and nothing is in flight
\* any more, every connected controller shows not revealed, every vote of its
\* roster is null, and every vote of the room is null at the backend
C6_ResetClearsEverywhere ==
    (count.ops = 6 /\ Quiescent) =>
        /\ \A p \in table : p.vote = Null
        /\ \A c \in MainClients :
              InRoom(c) => /\ ~isRevealed[c]
                           /\ \A p \in Roster(c) : p.vote = Null

\* C7: once the events of a Reset are delivered and every request issued
\* before the Reset has completed, every connected controller has no local vote
C7_ResetClearsLocalVote ==
    (count.ops = 6 /\ Quiescent) =>
        \A c \in MainClients : InRoom(c) => currentVote[c] = Null

\* the controller has handled the DELETE event of participant d
Reconciled(c, d) ==
    /\ count.ops = 3
    /\ InRoom(c) /\ channel[c] = "SUBSCRIBED" /\ participantId[c] # d
    /\ d \in 1..nextId /\ ~(\E p \in table : p.id = d)
    /\ ~(\E i \in DOMAIN queue[c] :
            queue[c][i].type = "DELETE" /\ queue[c][i].row.id = d)

\* C8: after a Leave has deleted a row, the roster of every other connected
\* controller excludes the id from the moment the controller has reconciled
\* the delete event, for as long as its subscription lasts
C8_DepartedStaysOut ==
    \A c \in MainClients, d \in 1..MaxIds :
        Reconciled(c, d) => ~(\E p \in Roster(c) : p.id = d)

\* C9: whenever a Reveal turns a room's revealed flag from false to true,
\* every participant row of that room has a vote at that moment
C9_RevealOnlyWhenAllVoted ==
    [][\A r \in DOMAIN rooms :
          (~rooms[r] /\ rooms'[r]) => \A p \in RowsOf(r) : p.vote # Null]_vars

\* C10: whenever a joined controller shows votes (its isRevealed is true), the
\* room it is joined to is revealed at the backend or has been revealed before
C10_VotesHiddenUntilRevealed ==
    \A c \in Clients :
        (~isJoining[c] /\ isRevealed[c]) => roomId[c] \in everRevealed

\* C11: a joinRoom on a room id that has no row at the backend ends with the
\* error "Room not found", inserts no participant row and leaves the controller
\* not joined: the form stays, no participant id, no channel, no fetch
C11_RoomNotFound ==
    [][\A c \in Clients, n \in Names, r \in 1..MaxRooms :
          (~RoomExists(r) /\ JoinRoomSelect(c, n, r, TRUE))
          => (/\ error'[c] = ErrRoomNotFound
              /\ table' = table
              /\ session'[c] = NoSession
              /\ isJoining'[c]
              /\ participantId'[c] = NoId
              /\ channel'[c] = "CLOSED"
              /\ fetch'[c] = NoFetch)]_vars

\* a controller has tried to join a room that does not exist
C11_JoinedMissingRoom ==
    \E c \in Clients :
        /\ roomId[c] # NoRoom /\ ~RoomExists(roomId[c])
        /\ error[c] = ErrRoomNotFound
        /\ isJoining[c] /\ session[c] = NoSession

\* C12: when handleLeave has run to its end without setting the error, the
\* participant row of the leaver is gone from the backend, its channel is
\* closed, and the controller is not joined: the form is shown, participantId
\* is null, roomId is empty and currentVote is null
C12_LeavePostState ==
    [][\A c \in Clients :
          (LeaveFinish(c) /\ error'[c] = error[c])
          => (/\ ~(\E p \in table' : p.id = participantId[c])
              /\ channel'[c] = "CLOSED"
              /\ isJoining'[c]
              /\ participantId'[c] = NoId
              /\ roomId'[c] = NoRoom
              /\ currentVote'[c] = Null)]_vars

\* the ids of the participant rows of a room
IdsOf(r) == {p.id : p \in RowsOf(r)}

\* C13: the snapshot of the initial fetch is taken with the channel already
\* subscribed, so whenever another participant's row is inserted into or
\* deleted from the room of a controller whose snapshot has been taken, the
\* channel of that controller is subscribed and gets the event
C13_FetchAfterSubscribed ==
    [][\A c \in Clients :
          (/\ InRoom(c) /\ fetch[c].st # "sent"
           /\ session'[c] = session[c]
           /\ IdsOf(roomId[c])' # IdsOf(roomId[c]))
          => channel[c] = "SUBSCRIBED"]_vars

\* the ids and votes of a set of participant rows
Votes(S) == {<<p.id, p.vote>> : p \in S}

\* C14: in every quiescent state the roster of each subscribed controller
\* holds exactly the participant rows of its room at the backend, with the
\* same ids and the same votes
C14_Convergence ==
    Quiescent =>
        \A c \in Clients :
            (InRoom(c) /\ channel[c] = "SUBSCRIBED")
            => Votes(Roster(c)) = Votes(RowsOf(roomId[c]))

\* C15: in every reachable state the roster of a controller has at most one
\* entry per participant id, however the result of the initial fetch
\* interleaves with insert, update and delete events, repeated inserts included
C15_OneEntryPerId ==
    \A c \in Clients :
        \A i, j \in DOMAIN participants[c] :
            participants[c][i].id = participants[c][j].id => i = j

\* an INSERT of id 1 has put the row into the roster, the same INSERT is
\* delivered again, and the fetch result that also holds id 1 is still to be
\* applied
C15_RepeatedInsert ==
    /\ \E p \in Roster("c1") : p.id = 1
    /\ queue["c1"] # <<>>
    /\ Head(queue["c1"]).type = "INSERT" /\ Head(queue["c1"]).row.id = 1
    /\ fetch["c1"].st = "loaded"
    /\ \E i \in DOMAIN fetch["c1"].data : fetch["c1"].data[i].id = 1

\* C16: handling a Room or Participant payload a second time, right after the
\* first, leaves the roster, the revealed flag and the local vote as the first
\* handling left them
C16_Idempotent ==
    [][\A c \in Clients :
          (Deliver(c) /\ Len(queue[c]) = 1)
          => (/\ participants'[c] = participants[c]
              /\ isRevealed'[c] = isRevealed[c]
              /\ currentVote'[c] = currentVote[c])]_vars

\* an INSERT of row 2 has been handled once, the roster holds rows 1 and 2,
\* and the same INSERT is next
C16_SecondInsert ==
    /\ Len(queue["c1"]) = 1
    /\ Head(queue["c1"]).type = "INSERT" /\ Head(queue["c1"]).row.id = 2
    /\ {p.id : p \in Roster("c1")} = {1, 2}
    /\ fetch["c1"] = NoFetch

\* C17: a Participant payload never changes the revealed flag, and changes the
\* local vote only when it is an UPDATE of the controller's own row with an
\* empty vote; a Room payload leaves the roster unchanged
C17_Frame ==
    [][\A c \in Clients :
          Deliver(c) =>
              LET ev == Head(queue[c])
              IN  /\ ev.type # "ROOM" => isRevealed'[c] = isRevealed[c]
                  /\ (ev.type # "ROOM" /\ currentVote'[c] # currentVote[c])
                     => (/\ ev.type = "UPDATE"
                         /\ ev.row.id = participantId[c]
                         /\ ev.row.vote = Null)
                  /\ ev.type = "ROOM" => participants'[c] = participants[c]]_vars

\* an UPDATE of another participant's row to an empty vote has been handled
\* and the controller still holds its local vote
C17_OthersUpdateKeepsVote ==
    /\ Len(queue["c1"]) = 1
    /\ Head(queue["c1"]) = Event("UPDATE", Participant(2, 1, "a", Null), FALSE)
    /\ \E p \in Roster("c1") : p.id = 2 /\ p.vote = Null
    /\ currentVote["c1"] = "3"
    /\ fetch["c1"] = NoFetch

\* C18: once a write of handleVote, handleReveal, handleReset or handleLeave
\* has been answered with an error and its handler has run to its end, the
\* controller that issued it shows an error message (the only controller with
\* a message, since no other request of the run can fail)
C18_FailedWriteReported ==
    (/\ count.fail > 0
     /\ \A c \in Clients : request[c] = NoRequest /\ session[c] = NoSession)
    => \E c \in Clients : error[c] # NoError

\* C19: after handleLeave has run to its end (the join form is on screen and
\* no createRoom or joinRoom has been started since), the continuation of a
\* handleVote, handleReveal or handleReset still in flight, or the result of
\* a fetch still in flight, changes none of the local vote, the roster, the
\* revealed flag and the average
C19_LateResponsesIgnored ==
    [][\A c \in Clients :
          (/\ isJoining[c] /\ session[c] = NoSession
           /\ \/ VoteDone(c)
              \/ RevealDone(c)
              \/ \E ok \in BOOLEAN : ResetVotes(c, ok)
              \/ FetchApply(c))
          => (/\ currentVote'[c] = currentVote[c]
              /\ participants'[c] = participants[c]
              /\ isRevealed'[c] = isRevealed[c]
              /\ average'[c] = average[c])]_vars

\* C20: when no request, response or event is outstanding, the local vote of
\* every controller in a room equals the vote its own participants row holds
\* in the backend
C20_LocalVoteIsBackendVote ==
    Quiescent => \A c \in Clients :
        InRoom(c) => \A p \in table :
            p.id = participantId[c] => currentVote[c] = p.vote

\* C21: when no request, response or event is outstanding, the revealed flag
\* of every controller in a room equals the revealed column of that room's
\* row in the backend
C21_LocalRevealedIsBackendRevealed ==
    Quiescent => \A c \in Clients :
        (InRoom(c) /\ RoomExists(roomId[c]))
        => isRevealed[c] = rooms[roomId[c]]

\* C22: every entry of the roster of a controller in a room is a participant
\* of that room: its room_id is the controller's roomId
C22_RosterOfCurrentRoom ==
    \A c \in Clients :
        InRoom(c) => \A p \in Roster(c) : p.room_id = roomId[c]

====
